---- MODULE Spec2Model ----
(***************************************************************************)
(* A model of package rediss (src/rediss.go, second listing, lines 407-     *)
(* 717): the sentinel-aware pool SPool, its construction (New, bootstrap),  *)
(* sentinel discovery (findPreferred), master resolution (reset), the       *)
(* connection factory (creator), the sentinel pub/sub monitor (pubSub) and  *)
(* the notification registry (NDo, resubscribe, NUnDo).                     *)
(*                                                                         *)
(* Goroutines are modelled as threads with a call stack of program          *)
(* positions.  The network (dial results, replies, latencies) is an input   *)
(* chosen anew at every step.                                               *)
(***************************************************************************)
EXTENDS Naturals, Integers, Sequences, FiniteSets, TLC

(***************************************************************************)
(* Bounds of the model.                                                     *)
(***************************************************************************)
\* longest sentinel peer-list reply (number of records)
MaxPeers == 2
\* how often the network answers a factory dial with "connection refused"
MaxRefused == 2
\* longest sentinel pub/sub message, in characters
MaxMsgLen == 5
\* handlers the callers hold registered at any one time
MaxRegs == 2
\* the size argument of New: the connections a filled pool holds
PoolSize == 2

(***************************************************************************)
(* Program constants.                                                       *)
(***************************************************************************)
\* fastest := 1 * time.Second, in milliseconds
Ceiling == 1000

\* type state string
Creating == "Creating"
Bootstrapping == "Bootstrapping"
Resetting == "Resetting"
Healthy == "Healthy"

(***************************************************************************)
(* Strings the code inspects character by character are tuples of          *)
(* one-character strings; strings it only compares or concatenates are      *)
(* TLA+ strings.                                                            *)
(***************************************************************************)
LowerLetters ==
    <<"a","b","c","d","e","f","g","h","i","j","k","l","m",
      "n","o","p","q","r","s","t","u","v","w","x","y","z">>
UpperLetters ==
    <<"A","B","C","D","E","F","G","H","I","J","K","L","M",
      "N","O","P","Q","R","S","T","U","V","W","X","Y","Z">>

UpperChar(c) ==
    IF \E i \in 1..26 : LowerLetters[i] = c
    THEN UpperLetters[CHOOSE i \in 1..26 : LowerLetters[i] = c]
    ELSE c

\* strings.ToUpper
ToUpper(s) == [i \in 1..Len(s) |-> UpperChar(s[i])]

MASTER == <<"M","A","S","T","E","R">>
SENTINEL == <<"S","E","N","T","I","N","E","L">>

\* the role strings a ROLE reply may carry in r[0]
Roles ==
    { <<"m","a","s","t","e","r">>, <<"M","a","s","t","e","r">>,
      <<"s","l","a","v","e">>,
      <<"s","e","n","t","i","n","e","l">>, <<"S","e","n","t","i","n","e","l">> }

\* a ROLE exchange: the dial fails, the query errors, or a role is reported
RoleReplies ==
    { [dial |-> FALSE, err |-> FALSE, role |-> <<>>],
      [dial |-> TRUE, err |-> TRUE, role |-> <<>>] }
    \cup { [dial |-> TRUE, err |-> FALSE, role |-> r] : r \in Roles }

\* the ROLE exchanges with a candidate master drawn while two goroutines
\* are explored: a candidate that is a master spells its role "Master"
CandidateReplies ==
    { rr \in RoleReplies : rr.role # <<"m","a","s","t","e","r">> }

(***************************************************************************)
(* Addresses.                                                               *)
(***************************************************************************)
\* the hostPort argument of New
BootAddr == "s0:26379"
\* the masterName argument of New
MasterName == <<"m">>

SentinelHosts == {"s0", "s1", "s2"}
SentinelPorts == {"26379"}
\* hp := h + ":" + p
HostPort(h, port) == h \o ":" \o port
SentinelAddrs == { HostPort(h, port) : h \in SentinelHosts, port \in SentinelPorts }

\* hosts a get-master-addr-by-name reply may carry
MasterHosts == {"10.0.0.5", "::1"}
MasterPorts == {"6379"}
\* net.ParseIP(host).To4() != nil, over MasterHosts
IsIPv4(host) == host \in {"10.0.0.5"}
\* lines 583-588: bracket a host that is no IPv4 literal, then host:port
MasterAddr(host, port) ==
    (IF IsIPv4(host) THEN host ELSE "[" \o host \o "]") \o ":" \o port

Range(s) == { s[i] : i \in 1..Len(s) }
SeqsUpTo(S, k) == UNION { [1..m -> S] : m \in 0..k }

(***************************************************************************)
(* Sentinel discovery, findPreferred (lines 507-552), as a function of the  *)
(* cache (hps, p) and of what the network answers.                          *)
(***************************************************************************)
\* one record of the "SENTINEL sentinels" reply: v[3] is the host, v[5] the
\* port; a record without these fields makes the type assertion panic
PeerRecords ==
    { [ok |-> TRUE, h |-> h, port |-> port] : h \in SentinelHosts, port \in SentinelPorts }
    \cup { [ok |-> FALSE, h |-> "", port |-> ""] }

\* a probe's outcome: -1 when DialTimeout fails, else the elapsed time in
\* milliseconds (Ceiling itself: a connect that took the whole second)
Latencies == {-1, 1, 2, Ceiling}

NoLatency == [a \in SentinelAddrs |-> -1]
\* what the network answers during one run of findPreferred: the dial of
\* the preferred sentinel fails, the query errors, or a reply arrives and
\* every known address is probed
DiscoveryInputs ==
    { [dial |-> FALSE, err |-> FALSE, reply |-> <<>>, lat |-> NoLatency],
      [dial |-> TRUE, err |-> TRUE, reply |-> <<>>, lat |-> NoLatency] }
    \cup [ dial : {TRUE}, err : {FALSE},
           reply : SeqsUpTo(PeerRecords, MaxPeers),
           lat : [SentinelAddrs -> Latencies] ]

\* the answers drawn while construction and resolution are explored: the
\* sentinel reports at most one peer, a probe fails or takes a millisecond
FewDiscoveryInputs ==
    { din \in DiscoveryInputs :
        /\ Len(din.reply) <= 1
        /\ \A a \in SentinelAddrs : din.lat[a] \in {-1, 1} }

\* what findPreferred meets when the preferred sentinel cannot be dialled
Unreachable == [dial |-> FALSE, err |-> FALSE, reply |-> <<>>, lat |-> NoLatency]
\* what the sentinel answers to the dial and the query of one run
DialAnswers == { din \in DiscoveryInputs : din.lat = NoLatency }
FewDialAnswers == { din \in FewDiscoveryInputs : din.lat = NoLatency }
\* what a probe meets while construction and resolution are explored
FewLatencies == {-1, 1}

\* lines 521-537: append every reported address not already known; stop
\* with a panic at a malformed record
RECURSIVE MergePeers(_, _, _)
MergePeers(known, reply, i) ==
    IF i > Len(reply) THEN [hps |-> known, panic |-> FALSE]
    ELSE IF ~reply[i].ok THEN [hps |-> known, panic |-> TRUE]
    ELSE LET hp == HostPort(reply[i].h, reply[i].port)
             exists == \E j \in 1..Len(known) : known[j] = hp
         IN MergePeers(IF exists THEN known ELSE Append(known, hp), reply, i + 1)

\* ProbeScan with <= in place of < at line 547
RECURSIVE ProbeScanLastWins(_, _, _, _, _)
ProbeScanLastWins(known, lat, i, pref, fastest) ==
    IF i > Len(known) THEN pref
    ELSE LET d == lat[known[i]]
         IN IF d = -1 THEN ProbeScanLastWins(known, lat, i + 1, pref, fastest)
            ELSE IF d <= fastest THEN ProbeScanLastWins(known, lat, i + 1, known[i], d)
            ELSE ProbeScanLastWins(known, lat, i + 1, pref, fastest)

\* lines 538-551: the minimum scan over the known addresses
RECURSIVE ProbeScan(_, _, _, _, _)
ProbeScan(known, lat, i, pref, fastest) ==
    IF i > Len(known) THEN pref
    ELSE LET d == lat[known[i]]
         IN IF d = -1 THEN ProbeScan(known, lat, i + 1, pref, fastest)
            ELSE IF d < fastest THEN ProbeScan(known, lat, i + 1, known[i], d)
            ELSE ProbeScan(known, lat, i + 1, pref, fastest)

findPreferred(known, pref, in) ==
    LET p0 == IF pref = "" THEN known[1] ELSE pref
    IN IF ~in.dial \/ in.err
       THEN [hps |-> known, p |-> p0, panic |-> TRUE]
       ELSE LET m == MergePeers(known, in.reply, 1)
            IN IF m.panic
               THEN [hps |-> m.hps, p |-> p0, panic |-> TRUE]
               ELSE [hps |-> m.hps,
                     p |-> ProbeScan(m.hps, in.lat, 1, p0, Ceiling),
                     panic |-> FALSE]


(***************************************************************************)
(* The state: the fields of SPool (lines 462-476), the goroutines, and     *)
(* history variables that record what the properties speak about.           *)
(***************************************************************************)
VARIABLES
    State,      \* s.State
    master,     \* s.master
    hps,        \* s.hps
    p,          \* s.p
    Up,         \* s.Up
    pool,       \* s.pool: [id, conns, bad], id 0 is nil
    n,          \* s.n: command:key -> handlers
    stack,      \* per goroutine, the program positions of its active calls
    ctor,       \* how New ended: running, returned, or the panic it raised
    subscribed, \* pubSub has registered the three sentinel handlers
    refusals,   \* history: factory dials answered "connection refused"
    installed,  \* history: the ROLE exchange behind the last write of master
    trace,      \* history: the values State has taken, in order
    ctorTrace,  \* history: trace at the moment New returned
    want,       \* history: what callers registered and did not unregister
    io,         \* history: the last input an operation consumed
    resyncDelay, \* s.resyncDelay
    waited,     \* history: the last time.Sleep of the resolution loop
    fp,         \* per goroutine, the locals of its run of findPreferred
    rp,         \* per goroutine, the locals of its run of resubscribe
    nd,         \* per goroutine, the locals of its call of NDo or NUnDo
    fills,      \* per goroutine, the pools its active calls of Fill run on
    others      \* the pools s.pool no longer names that a Fill still runs on

vars == <<State, master, hps, p, Up, pool, n, stack, ctor, subscribed,
          refusals, installed, trace, ctorTrace, want, io, resyncDelay, waited,
          fp, rp, nd, fills, others>>

Threads == {"main", "c1"}

NoPool == [id |-> 0, conns |-> 0, bad |-> 0]
NoInstall == [addr |-> "", role |-> <<>>]
NoIO == [op |-> "none"]
EmptyRegistry == [ck \in {} |-> <<>>]
\* no pool but the one s.pool names is in use
NoOthers == [id \in {} |-> 0]
\* the locals of findPreferred: the reply still to be merged, the list read
\* for an append (line 535), the list the probe loop ranges over (line
\* 539), and fastest
NoFp == [reply |-> <<>>, copy |-> <<>>, snap |-> <<>>, fastest |-> Ceiling]
\* the locals of resubscribe: whether the range has begun; the entries the
\* map has held since it began that the range has not produced yet (todo);
\* the entries created since it began and not produced (may); the entry at
\* hand with its handlers hs and the next position in hs; and, as history,
\* the register calls issued per entry and what callers held registered
\* when the range began
NoRp == [on |-> FALSE, todo |-> {}, may |-> {}, ck |-> "", hs |-> <<>>,
         i |-> 1, issued |-> EmptyRegistry, want0 |-> EmptyRegistry]
\* the locals of NDo and NUnDo: the arguments, the keys the loop has not
\* reached yet, the handler list read for the append of line 693; and, as
\* history, s.n when a call of NDo began
NoNd == [command |-> "", handler |-> "", keys |-> <<>>,
         left |-> <<>>, old |-> <<>>, n0 |-> EmptyRegistry]
\* the resolution loop has not slept yet
NoWait == -1
\* the resyncDelay argument of New, in milliseconds
ResyncDelay == 50

\* the SPool literal of New (lines 429-439); New is about to call bootstrap
Init ==
    /\ State = Creating
    /\ master = ""
    /\ hps = <<BootAddr>>
    /\ p = BootAddr
    /\ Up = TRUE
    /\ pool = NoPool
    /\ n = EmptyRegistry
    /\ stack = [t \in Threads |-> IF t = "main" THEN <<"bootstrap">> ELSE <<>>]
    /\ ctor = "running"
    /\ subscribed = FALSE
    /\ refusals = 0
    /\ installed = NoInstall
    /\ trace = <<Creating>>
    /\ ctorTrace = <<>>
    /\ want = EmptyRegistry
    /\ io = NoIO
    /\ resyncDelay = 0
    /\ fp = [t \in Threads |-> NoFp]
    /\ rp = [t \in Threads |-> NoRp]
    /\ nd = [t \in Threads |-> NoNd]
    /\ fills = [t \in Threads |-> <<>>]
    /\ others = NoOthers
    /\ waited = NoWait

(***************************************************************************)
(* Calls, returns and panics of a goroutine.                                *)
(***************************************************************************)
At(t, l) == stack[t] # <<>> /\ Head(stack[t]) = l
\* continue at l in the current function
Goto(t, l) == stack' = [stack EXCEPT ![t] = <<l>> \o Tail(@)]
\* call the function starting at l; the caller resumes at back
Call(t, l, back) == stack' = [stack EXCEPT ![t] = <<l, back>> \o Tail(@)]
Return(t) == stack' = [stack EXCEPT ![t] = Tail(@)]
\* of the pools in oth, those a Fill of f still runs on and s.pool (cur)
\* does not name
Kept(oth, f, cur) ==
    [id \in { i \in DOMAIN oth : i # cur /\ \E t \in Threads : i \in Range(f[t]) } |->
        oth[id]]
\* a panic unwinds the goroutine; nothing below New, reset or the factory
\* recovers (bootstrap's recover, line 487, panics again).  A panic out of
\* New leaves no client.
Panic(t, msg) ==
    /\ stack' = [stack EXCEPT ![t] = <<>>]
    /\ ctor' = IF t = "main" /\ ctor = "running" THEN msg ELSE ctor
    /\ fills' = [fills EXCEPT ![t] = <<>>]
    /\ others' = Kept(others, fills', pool.id)

\* State changes are recorded in trace
Became(s) == IF s = State THEN trace ELSE Append(trace, s)

(***************************************************************************)
(* The notification registry (lines 684-717): NDo and NUnDo, one action per *)
(* pool call and per access to s.n, which the code reads and writes without *)
(* a lock.  want counts, per entry, the handlers the callers registered     *)
(* with success and have not unregistered.                                  *)
(***************************************************************************)
Commands == {"SUBSCRIBE"}
Keys == {"k1", "k2"}
Handlers == {"h1", "h2"}
\* ck := command + ":" + k
CK(command, k) == command \o ":" \o k
\* strings.SplitN(ck, ":", 2) of a registry key: no command of the model
\* holds a colon, so the split gives back the command and the key
SplitCK(ck) == CHOOSE ckp \in Commands \X Keys : CK(ckp[1], ckp[2]) = ck

\* the keys of one NDo or NUnDo call
KeyLists == SeqsUpTo(Keys, MaxRegs)
TouchedBy(command, keys) == { CK(command, keys[i]) : i \in 1..Len(keys) }
Occurrences(command, keys, ck) ==
    Cardinality({ i \in 1..Len(keys) : CK(command, keys[i]) = ck })

\* s.n[ck] read as a value (line 693): an entry the map lacks reads as nil
Held(reg, ck) == IF ck \in DOMAIN reg THEN reg[ck] ELSE <<>>
\* s.n[ck] = hs (lines 691 and 693)
Stored(reg, ck, hs) ==
    [c \in DOMAIN reg \cup {ck} |-> IF c = ck THEN hs ELSE reg[c]]
\* delete(s.n, ck) (line 714) for every ck of gone
Unregister(reg, gone) == [ck \in DOMAIN reg \ gone |-> reg[ck]]
\* an append that puts the handler in front of the list
AppendedFront(old, h) == <<h>> \o old
\* append(s.n[ck], handler) of line 693
Appended(old, h) == Append(old, h)

\* What a write of s.n means to a range over s.n that is under way (line
\* 700): an entry removed before the range reached it is not produced, an
\* entry created during the range may be produced or may be skipped.
EntryCreated(r, ck) == IF r.on THEN [r EXCEPT !.may = @ \cup {ck}] ELSE r
EntryDeleted(r, ck) == [r EXCEPT !.todo = @ \ {ck}, !.may = @ \ {ck}]
\* s.n[ck] is assigned: the entry is created if the map lacks it
Assigned(ck) ==
    rp' = [u \in Threads |->
             IF ck \in DOMAIN n THEN rp[u] ELSE EntryCreated(rp[u], ck)]

\* the entry the loop of NDo or NUnDo is at (lines 688 and 713)
AtKey(t) == CK(nd[t].command, Head(nd[t].left))

\* line 685 gave err: NDo returns it (line 696) to the position back, or
\* enters the loop over keys (line 687)
NDoEnter(t, command, handler, keys, err, back) ==
    IF err \/ keys = <<>>
    THEN /\ stack' = [stack EXCEPT ![t] = back]
         /\ UNCHANGED nd
    ELSE /\ stack' = [stack EXCEPT ![t] = <<"nd_exists">> \o back]
         /\ nd' = [nd EXCEPT ![t] = [NoNd EXCEPT !.command = command,
                                                 !.handler = handler,
                                                 !.keys = keys,
                                                 !.left = keys,
                                                 !.n0 = n]]

\* NDo called on the client New returned (lines 684-686): the pool's NDo
\* gives err; want counts what callers registered with success
NDo(t, command, handler, keys, err) ==
    /\ stack[t] = <<>>
    /\ ctor = "returned"
    /\ pool.id # 0
    /\ NDoEnter(t, command, handler, keys, err, <<>>)
    /\ want' = IF err THEN want
               ELSE [ck \in DOMAIN want \cup TouchedBy(command, keys) |->
                       (IF ck \in DOMAIN want THEN want[ck] ELSE 0)
                       + Occurrences(command, keys, ck)]
    /\ UNCHANGED <<State, master, hps, p, Up, pool, n, ctor, subscribed,
                   refusals, installed, trace, ctorTrace,
                   resyncDelay, waited, fp, rp, fills, others>>

\* lines 688-690: _, exists := s.n[ck]
NDoExists(t) ==
    /\ At(t, "nd_exists")
    /\ Goto(t, IF AtKey(t) \in DOMAIN n THEN "nd_read" ELSE "nd_create")
    /\ UNCHANGED <<State, master, hps, p, Up, pool, n, ctor, subscribed,
                   refusals, installed, trace, ctorTrace, want,
                   resyncDelay, nd, waited, fp, rp, fills, others>>

\* line 691: s.n[ck] = []redisn.Handler{}
NDoCreate(t) ==
    /\ At(t, "nd_create")
    /\ n' = Stored(n, AtKey(t), <<>>)
    /\ Assigned(AtKey(t))
    /\ Goto(t, "nd_read")
    /\ UNCHANGED <<State, master, hps, p, Up, pool, ctor, subscribed,
                   refusals, installed, trace, ctorTrace, want,
                   resyncDelay, nd, waited, fp, fills, others>>

\* line 693, the operand of append: s.n[ck] is read
NDoRead(t) ==
    /\ At(t, "nd_read")
    /\ nd' = [nd EXCEPT ![t].old = Held(n, AtKey(t))]
    /\ Goto(t, "nd_store")
    /\ UNCHANGED <<State, master, hps, p, Up, pool, n, ctor, subscribed,
                   refusals, installed, trace, ctorTrace, want,
                   resyncDelay, waited, fp, rp, fills, others>>

\* line 693, the assignment: s.n[ck] = append(the list read, handler); then
\* the next key, or the return of line 696
NDoStore(t) ==
    /\ At(t, "nd_store")
    /\ n' = Stored(n, AtKey(t), Appended(nd[t].old, nd[t].handler))
    /\ Assigned(AtKey(t))
    /\ IF Len(nd[t].left) = 1
       THEN /\ nd' = [nd EXCEPT ![t] = NoNd]
            /\ Return(t)
       ELSE /\ nd' = [nd EXCEPT ![t].left = Tail(@), ![t].old = <<>>]
            /\ Goto(t, "nd_exists")
    /\ UNCHANGED <<State, master, hps, p, Up, pool, ctor, subscribed,
                   refusals, installed, trace, ctorTrace, want,
                   resyncDelay, waited, fp, fills, others>>

\* NUnDo called on the client New returned, line 711: the pool's NUnDo gives
\* err, which NUnDo returns after the loop (line 716)
NUnDo(t, command, keys, err) ==
    /\ stack[t] = <<>>
    /\ ctor = "returned"
    /\ pool.id # 0
    /\ IF keys = <<>>
       THEN UNCHANGED <<stack, nd>>
       ELSE /\ stack' = [stack EXCEPT ![t] = <<"nu_delete">>]
            /\ nd' = [nd EXCEPT ![t] = [NoNd EXCEPT !.command = command,
                                                    !.keys = keys,
                                                    !.left = keys]]
    /\ UNCHANGED <<State, master, hps, p, Up, pool, n, ctor, subscribed,
                   refusals, installed, trace, ctorTrace, want,
                   resyncDelay, waited, fp, rp, fills, others>>

\* lines 713-714 for one key: delete(s.n, ck); after the last key NUnDo
\* returns, and callers no longer hold the entries registered
NUnDoDelete(t) ==
    /\ At(t, "nu_delete")
    /\ n' = Unregister(n, {AtKey(t)})
    /\ rp' = [u \in Threads |-> EntryDeleted(rp[u], AtKey(t))]
    /\ IF Len(nd[t].left) = 1
       THEN /\ nd' = [nd EXCEPT ![t] = NoNd]
            /\ want' = Unregister(want, TouchedBy(nd[t].command, nd[t].keys))
            /\ Return(t)
       ELSE /\ nd' = [nd EXCEPT ![t].left = Tail(@)]
            /\ UNCHANGED <<want, stack>>
    /\ UNCHANGED <<State, master, hps, p, Up, pool, ctor, subscribed,
                   refusals, installed, trace, ctorTrace,
                   resyncDelay, waited, fp, fills, others>>

\* The positions at which a goroutine is about to access s.n
MapReaders == {"rs_resub", "nd_exists", "nd_read"}
MapWriters == {"nd_create", "nd_store", "nu_delete"}
\* The runtime finds a write of s.n under way together with another access
\* to s.n and stops the process ("fatal error: concurrent map writes",
\* "concurrent map iteration and map write"): no goroutine runs on
mapFault ==
    /\ \E t \in Threads : \E u \in Threads \ {t} :
          /\ stack[t] # <<>> /\ Head(stack[t]) \in MapWriters
          /\ stack[u] # <<>> /\ Head(stack[u]) \in MapWriters \cup MapReaders
    /\ stack' = [t \in Threads |-> <<"fatal">>]
    /\ UNCHANGED <<State, master, hps, p, Up, pool, n, ctor, subscribed,
                   refusals, installed, trace, ctorTrace, want,
                   resyncDelay, nd, waited, fp, rp, fills, others>>

(***************************************************************************)
(* New (lines 428-460) and bootstrap (lines 484-505).                       *)
(***************************************************************************)
\* bootstrap without the role check of lines 501-503
bootstrapAnyRole(t, rr, din) ==
    /\ At(t, "bootstrap")
    /\ State' = Bootstrapping
    /\ trace' = Became(Bootstrapping)
    /\ IF ~rr.dial \/ rr.err
       THEN /\ Panic(t, "failed to bootstrap")
            /\ UNCHANGED <<hps, p>>
       ELSE LET r == findPreferred(hps, p, din)
            IN /\ hps' = r.hps
               /\ p' = r.p
               /\ IF r.panic
                  THEN Panic(t, "failed to bootstrap")
                  ELSE /\ Call(t, "rs_guard", "new_pubsub")
                       /\ UNCHANGED <<ctor, fills, others>>
    /\ UNCHANGED <<master, Up, pool, n, subscribed, refusals, installed,
                   ctorTrace, want, resyncDelay, nd, waited,
                   fp, rp>>

\* s.bootstrap(): rr is the ROLE exchange with s.hps[0], din what the
\* network answers to findPreferred
bootstrap(t, rr, din) ==
    /\ At(t, "bootstrap")
    /\ State' = Bootstrapping
    /\ trace' = Became(Bootstrapping)
    /\ IF ~rr.dial \/ rr.err \/ ToUpper(rr.role) # SENTINEL
       THEN /\ Panic(t, "failed to bootstrap")
            /\ UNCHANGED <<hps, p>>
       ELSE LET r == findPreferred(hps, p, din)
            IN /\ hps' = r.hps
               /\ p' = r.p
               /\ IF r.panic
                  THEN Panic(t, "failed to bootstrap")
                  ELSE /\ Call(t, "rs_guard", "new_pubsub")
                       /\ UNCHANGED <<ctor, fills, others>>
    /\ UNCHANGED <<master, Up, pool, n, subscribed, refusals, installed,
                   ctorTrace, want, resyncDelay, nd, waited,
                   fp, rp>>

\* s.pubSub() (line 458) starts by asking the factory for a connection
pubSub(t) ==
    /\ At(t, "new_pubsub")
    /\ Call(t, "cr_dial", "ps_sub")
    /\ UNCHANGED <<State, master, hps, p, Up, pool, n, ctor, subscribed,
                   refusals, installed, trace, ctorTrace, want,
                   resyncDelay, nd, waited,
                   fp, rp, fills, others>>

\* lines 626-649 and 459: the three handlers are registered, New returns
newReturn(t) ==
    /\ At(t, "ps_sub")
    /\ subscribed' = TRUE
    /\ ctor' = "returned"
    /\ ctorTrace' = trace
    /\ Return(t)
    /\ UNCHANGED <<State, master, hps, p, Up, pool, n, refusals, installed,
                   trace, want, resyncDelay, nd, waited,
                   fp, rp, fills, others>>

(***************************************************************************)
(* reset (lines 554-614), one action per step; an iteration of the loop,   *)
(* from the sleep of line 567 to its continue or break, is one step.        *)
(***************************************************************************)
\* reset without the guard of lines 555-557
resetGuardAlwaysEnters(t) ==
    /\ At(t, "rs_guard")
    /\ Goto(t, "rs_enter")
    /\ UNCHANGED <<State, master, hps, p, Up, pool, n, ctor, subscribed,
                   refusals, installed, trace, ctorTrace, want,
                   resyncDelay, nd, waited,
                   fp, rp, fills, others>>

\* lines 555-557: the read of s.State
resetGuard(t) ==
    /\ At(t, "rs_guard")
    /\ IF State = Resetting THEN Return(t) ELSE Goto(t, "rs_enter")
    /\ UNCHANGED <<State, master, hps, p, Up, pool, n, ctor, subscribed,
                   refusals, installed, trace, ctorTrace, want,
                   resyncDelay, nd, waited,
                   fp, rp, fills, others>>

\* line 558
resetEnter(t) ==
    /\ At(t, "rs_enter")
    /\ State' = Resetting
    /\ trace' = Became(Resetting)
    /\ Goto(t, "rs_drain")
    /\ UNCHANGED <<master, hps, p, Up, pool, n, ctor, subscribed, refusals,
                   installed, ctorTrace, want, resyncDelay, nd, waited,
                   fp, rp, fills, others>>

\* redisn.New(redisp.New(size, creator, retryDelay)): an empty pool; conns
\* counts the connections it holds, bad those handed to its Bad
NewPool(old) == [id |-> old.id + 1, conns |-> 0, bad |-> 0]
\* pool.Empty()
Empty(q) == [q EXCEPT !.conns = 0]

\* reset without lines 559-564: the pool is left as it is
resetDrainSkips(t) ==
    /\ At(t, "rs_drain")
    /\ Goto(t, "rs_clear")
    /\ UNCHANGED <<State, master, hps, p, Up, pool, n, ctor, subscribed,
                   refusals, installed, trace, ctorTrace, want,
                   resyncDelay, nd, waited,
                   fp, rp, fills, others>>

\* lines 559-564
resetDrain(t) ==
    /\ At(t, "rs_drain")
    /\ LET q == IF pool.id = 0 /\ Len(master) > 0 THEN NewPool(pool) ELSE pool
       IN pool' = IF q.id # 0 THEN Empty(q) ELSE q
    /\ Goto(t, "rs_clear")
    /\ UNCHANGED <<State, master, hps, p, Up, n, ctor, subscribed, refusals,
                   installed, trace, ctorTrace, want, resyncDelay, nd, waited,
                   fp, rp, fills, others>>

\* line 565
resetClear(t) ==
    /\ At(t, "rs_clear")
    /\ master' = ""
    /\ installed' = NoInstall
    /\ Goto(t, "rs_loop")
    /\ UNCHANGED <<State, hps, p, Up, pool, n, ctor, subscribed, refusals,
                   trace, ctorTrace, want, resyncDelay, nd, waited,
                   fp, rp, fills, others>>

\* lines 567-573 and 574-579: after the sleep the dial of s.p fails, or the
\* get-master-addr-by-name query errs; findPreferred is called and the loop
\* continues when it returns
resetRediscover(t) ==
    /\ At(t, "rs_loop")
    /\ Call(t, "fp_dial", "rs_loop")
    /\ UNCHANGED <<State, master, hps, p, Up, pool, n, ctor, subscribed,
                   refusals, installed, trace, ctorTrace, want, resyncDelay, nd,
                   fp, rp, fills, others>>
    \* line 567: time.Sleep(s.resyncDelay)
    /\ waited' = resyncDelay

(***************************************************************************)
(* findPreferred (lines 507-552) as reset runs it: one action per access to *)
(* s.hps and s.p that another goroutine's run can come between.  The merge  *)
(* of one reply record and the probe of one address are MergePeers and      *)
(* ProbeScan on that one element.                                           *)
(***************************************************************************)
\* where findPreferred goes on when rest is what is left of the reply: the
\* merge of the next record, or the probe loop
AfterRecord(rest) == IF rest = <<>> THEN "fp_range" ELSE "fp_merge"

\* lines 508-519: the dial of s.p and the peer-list query; in is what the
\* network answers (its reply part)
fpDial(t, in) ==
    /\ At(t, "fp_dial")
    /\ p' = IF p = "" THEN hps[1] ELSE p
    /\ IF ~in.dial \/ in.err
       THEN Panic(t, "panic") /\ UNCHANGED fp
       ELSE /\ fp' = [fp EXCEPT ![t] = [NoFp EXCEPT !.reply = in.reply]]
            /\ Goto(t, AfterRecord(in.reply))
            /\ UNCHANGED <<ctor, fills, others>>
    /\ UNCHANGED <<State, master, hps, Up, pool, n, subscribed, refusals,
                   installed, trace, ctorTrace, want, resyncDelay, nd, waited,
                   rp>>

\* lines 521-533 for the next record of the reply: the type assertions and
\* the search of s.hps; a record found in the list is done with
fpMerge(t) ==
    /\ At(t, "fp_merge")
    /\ LET reply == fp[t].reply
           m == MergePeers(hps, <<Head(reply)>>, 1)
       IN IF m.panic
          THEN Panic(t, "panic") /\ fp' = [fp EXCEPT ![t] = NoFp]
          ELSE IF m.hps = hps
          THEN /\ fp' = [fp EXCEPT ![t].reply = Tail(reply)]
               /\ Goto(t, AfterRecord(Tail(reply)))
               /\ UNCHANGED <<ctor, fills, others>>
          ELSE /\ Goto(t, "fp_append")
               /\ UNCHANGED <<fp, ctor, fills, others>>
    /\ UNCHANGED <<State, master, hps, p, Up, pool, n, subscribed, refusals,
                   installed, trace, ctorTrace, want, resyncDelay, nd, waited,
                   rp>>

\* line 535, the operand of append: s.hps is read
fpAppendRead(t) ==
    /\ At(t, "fp_append")
    /\ fp' = [fp EXCEPT ![t].copy = hps]
    /\ Goto(t, "fp_store")
    /\ UNCHANGED <<State, master, hps, p, Up, pool, n, ctor, subscribed,
                   refusals, installed, trace, ctorTrace, want,
                   resyncDelay, nd, waited, rp, fills, others>>

\* line 535, the assignment: what was read, with the address appended, is
\* stored in s.hps
fpAppendStore(t) ==
    /\ At(t, "fp_store")
    /\ LET rec == Head(fp[t].reply)
       IN hps' = Append(fp[t].copy, HostPort(rec.h, rec.port))
    /\ fp' = [fp EXCEPT ![t].reply = Tail(@), ![t].copy = <<>>]
    /\ Goto(t, AfterRecord(Tail(fp[t].reply)))
    /\ UNCHANGED <<State, master, p, Up, pool, n, ctor, subscribed,
                   refusals, installed, trace, ctorTrace, want,
                   resyncDelay, nd, waited, rp, fills, others>>

\* lines 538-539: fastest starts at the ceiling and the range expression
\* s.hps is evaluated, once
fpRange(t) ==
    /\ At(t, "fp_range")
    /\ fp' = [fp EXCEPT ![t].snap = hps, ![t].fastest = Ceiling]
    /\ Goto(t, "fp_probe")
    /\ UNCHANGED <<State, master, hps, p, Up, pool, n, ctor, subscribed,
                   refusals, installed, trace, ctorTrace, want,
                   resyncDelay, nd, waited, rp, fills, others>>

\* lines 540-550 for the next address of the range, whose probe meets the
\* latency d; after the last address findPreferred returns
fpProbe(t, d) ==
    /\ At(t, "fp_probe")
    /\ LET snap == fp[t].snap
           a == Head(snap)
           won == ProbeScan(<<a>>, a :> d, 1, "", fp[t].fastest) = a
       IN /\ p' = IF won THEN a ELSE p
          /\ IF Tail(snap) = <<>>
             THEN /\ Return(t)
                  /\ fp' = [fp EXCEPT ![t] = NoFp]
             ELSE /\ fp' = [fp EXCEPT ![t].snap = Tail(snap),
                                       ![t].fastest = IF won THEN d ELSE @]
                  /\ UNCHANGED stack
    /\ UNCHANGED <<State, master, hps, Up, pool, n, ctor, subscribed,
                   refusals, installed, trace, ctorTrace, want,
                   resyncDelay, nd, waited, rp, fills, others>>

\* lines 582-584: a reply that is no two-element list of strings
resetBadReply(t) ==
    /\ At(t, "rs_loop")
    /\ Panic(t, "panic")
    /\ UNCHANGED <<State, master, hps, p, Up, pool, n, subscribed, refusals,
                   installed, trace, ctorTrace, want, resyncDelay, nd,
                   fp, rp>>
    \* line 567: time.Sleep(s.resyncDelay)
    /\ waited' = resyncDelay

\* resetCandidate without the role check of lines 602-605
resetCandidateAnyRole(t, host, port, rr) ==
    /\ At(t, "rs_loop")
    /\ LET maddr == MasterAddr(host, port)
       IN IF rr.dial /\ ~rr.err
          THEN /\ master' = maddr
               /\ installed' = [addr |-> maddr, role |-> rr.role]
               /\ Goto(t, "rs_newpool")
          ELSE UNCHANGED <<master, installed, stack>>
    /\ UNCHANGED <<State, hps, p, Up, pool, n, ctor, subscribed, refusals,
                   trace, ctorTrace, want, resyncDelay, nd,
                   fp, rp, fills, others>>
    \* line 567: time.Sleep(s.resyncDelay)
    /\ waited' = resyncDelay

\* lines 582-609: the sentinel names host and port; rr is the ROLE exchange
\* with that address
resetCandidate(t, host, port, rr) ==
    /\ At(t, "rs_loop")
    /\ LET maddr == MasterAddr(host, port)
       IN IF rr.dial /\ ~rr.err /\ ToUpper(rr.role) = MASTER
          THEN /\ master' = maddr
               /\ installed' = [addr |-> maddr, role |-> rr.role]
               /\ Goto(t, "rs_newpool")
          ELSE UNCHANGED <<master, installed, stack>>
    /\ UNCHANGED <<State, hps, p, Up, pool, n, ctor, subscribed, refusals,
                   trace, ctorTrace, want, resyncDelay, nd,
                   fp, rp, fills, others>>
    \* line 567: time.Sleep(s.resyncDelay)
    /\ waited' = resyncDelay

\* the connections of the pool id
ConnsOf(id) == IF id = pool.id THEN pool.conns ELSE others[id]

\* line 610: s.pool names a new pool; the old one stays in use where a Fill
\* runs on it
resetNewPool(t) ==
    /\ At(t, "rs_newpool")
    /\ pool' = NewPool(pool)
    /\ others' = Kept(others @@ (pool.id :> pool.conns), fills, pool.id + 1)
    /\ Goto(t, "rs_callfill")
    /\ UNCHANGED <<State, master, hps, p, Up, n, ctor, subscribed, refusals,
                   installed, trace, ctorTrace, want, resyncDelay, nd, waited,
                   fp, rp, fills>>

\* line 611, the call: Fill runs on the pool s.pool names now
resetFillCall(t) ==
    /\ At(t, "rs_callfill")
    /\ fills' = [fills EXCEPT ![t] = <<pool.id>> \o @]
    /\ Goto(t, "rs_fill")
    /\ UNCHANGED <<State, master, hps, p, Up, pool, n, ctor, subscribed,
                   refusals, installed, trace, ctorTrace, want,
                   resyncDelay, nd, waited, fp, rp, others>>

\* line 611, pool.Fill(): the factory is called until the pool Fill runs on
\* holds size connections
resetFill(t) ==
    /\ At(t, "rs_fill")
    /\ IF ConnsOf(Head(fills[t])) < PoolSize
       THEN Call(t, "cr_dial", "rs_fill") /\ UNCHANGED <<fills, others>>
       ELSE /\ Goto(t, "rs_healthy")
            /\ fills' = [fills EXCEPT ![t] = Tail(@)]
            /\ others' = Kept(others, fills', pool.id)
    /\ UNCHANGED <<State, master, hps, p, Up, pool, n, ctor, subscribed,
                   refusals, installed, trace, ctorTrace, want,
                   resyncDelay, nd, waited, fp, rp>>

\* resetHealthy going back to Bootstrapping instead of on to Healthy
resetHealthyBootstrapping(t) ==
    /\ At(t, "rs_healthy")
    /\ State' = Bootstrapping
    /\ trace' = Became(Bootstrapping)
    /\ Goto(t, "rs_resub")
    /\ UNCHANGED <<master, hps, p, Up, pool, n, ctor, subscribed, refusals,
                   installed, ctorTrace, want, resyncDelay, nd, waited,
                   fp, rp, fills, others>>

\* line 612
resetHealthy(t) ==
    /\ At(t, "rs_healthy")
    /\ State' = Healthy
    /\ trace' = Became(Healthy)
    /\ Goto(t, "rs_resub")
    /\ UNCHANGED <<master, hps, p, Up, pool, n, ctor, subscribed, refusals,
                   installed, ctorTrace, want, resyncDelay, nd, waited,
                   fp, rp, fills, others>>

(***************************************************************************)
(* resubscribe (lines 699-708), called at line 613: one action per entry    *)
(* the range produces and one per call of s.NDo, whose steps are those of   *)
(* NDo; between any two of them another goroutine may act on s.n.           *)
(***************************************************************************)
\* the locals of the range, which begins with the first of these actions
Ranging(t) ==
    IF rp[t].on THEN rp[t]
    ELSE [NoRp EXCEPT !.on = TRUE, !.todo = DOMAIN n, !.want0 = want]

\* one more register call issued for the entry ck
Bump(count, ck) ==
    [c \in DOMAIN count \cup {ck} |->
        (IF c \in DOMAIN count THEN count[c] ELSE 0) + (IF c = ck THEN 1 ELSE 0)]

\* lines 700-703: the range produces an entry: one the map has held since
\* the range began, or one created since; hs is the handler list the entry
\* holds at this moment
replayNext(t) ==
    /\ At(t, "rs_resub")
    /\ \E ck \in Ranging(t).todo \cup Ranging(t).may :
          /\ rp' = [rp EXCEPT ![t] = [Ranging(t) EXCEPT !.todo = @ \ {ck},
                                                       !.may = @ \ {ck},
                                                       !.ck = ck,
                                                       !.hs = n[ck],
                                                       !.i = 1]]
          /\ Goto(t, IF n[ck] = <<>> THEN "rs_resub" ELSE "rp_call")
    /\ UNCHANGED <<State, master, hps, p, Up, pool, n, ctor, subscribed,
                   refusals, installed, trace, ctorTrace, want,
                   resyncDelay, nd, waited, fp, fills, others>>

\* lines 704-706 for one handler: s.NDo(c, h, k) is called and its line 685
\* gives err; the error NDo returns is ignored.  After the call the loop
\* goes on with the next handler or the range with the next entry.
replayCall(t, err) ==
    /\ At(t, "rp_call")
    /\ LET r == rp[t]
           c == SplitCK(r.ck)[1]
           k == SplitCK(r.ck)[2]
           next == IF r.i + 1 > Len(r.hs) THEN "rs_resub" ELSE "rp_call"
       IN /\ rp' = [rp EXCEPT ![t].i = @ + 1, ![t].issued = Bump(@, r.ck)]
          /\ NDoEnter(t, c, r.hs[r.i], <<k>>, err, <<next>> \o Tail(stack[t]))
    /\ UNCHANGED <<State, master, hps, p, Up, pool, n, ctor, subscribed,
                   refusals, installed, trace, ctorTrace, want,
                   resyncDelay, waited, fp, fills, others>>

\* the range is over: every entry the map has held since it began was
\* produced (an entry created meanwhile may be left out); resubscribe and
\* reset return
resetResubscribe(t) ==
    /\ At(t, "rs_resub")
    /\ Ranging(t).todo = {}
    /\ rp' = [rp EXCEPT ![t] = NoRp]
    /\ Return(t)
    /\ UNCHANGED <<State, master, hps, p, Up, pool, n, ctor, subscribed,
                   refusals, installed, trace, ctorTrace, want,
                   resyncDelay, nd, waited, fp, fills, others>>

(***************************************************************************)
(* The connection factory, s.creator (lines 441-456).                       *)
(***************************************************************************)
\* the factory hands its connection to its caller: a Fill adds it to the
\* pool it runs on
Delivered(t) ==
    LET below == Tail(stack[t])
        filling == below # <<>> /\ Head(below) = "rs_fill"
        here == filling /\ Head(fills[t]) = pool.id
    IN /\ stack' = [stack EXCEPT ![t] = below]
       /\ pool' = IF here /\ pool.conns < PoolSize
                  THEN [pool EXCEPT !.conns = @ + 1]
                  ELSE pool
       /\ others' = IF filling /\ ~here /\ others[Head(fills[t])] < PoolSize
                    THEN [others EXCEPT ![Head(fills[t])] = @ + 1]
                    ELSE others

DialResults == {"ok", "refused", "other"}

\* lines 442-446 and 451-455: an empty address is never "connection refused"
creatorDial(t, res) ==
    /\ At(t, "cr_dial")
    /\ master = "" => res = "other"
    /\ res = "refused" => refusals < MaxRefused
    /\ refusals' = IF res = "refused" THEN refusals + 1 ELSE refusals
    /\ CASE res = "ok" -> Delivered(t) /\ UNCHANGED <<ctor, fills>>
         [] res = "refused" -> /\ Call(t, "rs_guard", "cr_redial")
                               /\ UNCHANGED <<pool, ctor, fills, others>>
         [] OTHER -> Panic(t, "panic") /\ UNCHANGED pool
    /\ UNCHANGED <<State, master, hps, p, Up, n, subscribed, installed,
                   trace, ctorTrace, want, resyncDelay, nd, waited, fp, rp>>

\* lines 447-450: the second dial, after reset returned
creatorRedial(t, ok) ==
    /\ At(t, "cr_redial")
    /\ master = "" => ~ok
    /\ IF ok THEN Delivered(t) /\ UNCHANGED <<ctor, fills>>
             ELSE Panic(t, "failed to reset") /\ UNCHANGED pool
    /\ UNCHANGED <<State, master, hps, p, Up, n, subscribed, refusals,
                   installed, trace, ctorTrace, want, resyncDelay, nd, waited,
                   fp, rp>>

\* a caller of the returned client asks the pool for a connection and the
\* pool calls the factory (Get, PDo)
Get(t) ==
    /\ stack[t] = <<>>
    /\ ctor = "returned"
    /\ stack' = [stack EXCEPT ![t] = <<"cr_dial">>]
    /\ UNCHANGED <<State, master, hps, p, Up, pool, n, ctor, subscribed,
                   refusals, installed, trace, ctorTrace, want,
                   resyncDelay, nd, waited,
                   fp, rp, fills, others>>

(***************************************************************************)
(* Construction and resolution under two goroutines.                        *)
(***************************************************************************)
\* what the network answered to bootstrap, as io records it
BootstrapInput(rr, din) ==
    [ op |-> "bootstrap",
      dialed |-> rr.dial,
      answered |-> rr.dial /\ ~rr.err,
      sentinel |-> rr.dial /\ ~rr.err /\ ToUpper(rr.role) = SENTINEL,
      discovered |-> /\ din.dial
                     /\ ~din.err
                     /\ \A i \in 1..Len(din.reply) : din.reply[i].ok ]

Next ==
    \/ \E rr \in RoleReplies, din \in FewDiscoveryInputs :
           bootstrap("main", rr, din) /\ io' = BootstrapInput(rr, din)
    \/ \E t \in Threads : pubSub(t) /\ UNCHANGED io
    \/ \E t \in Threads : newReturn(t) /\ UNCHANGED io
    \/ \E t \in Threads : resetGuard(t) /\ UNCHANGED io
    \/ \E t \in Threads : resetEnter(t) /\ UNCHANGED io
    \/ \E t \in Threads : resetDrain(t) /\ UNCHANGED io
    \/ \E t \in Threads : resetClear(t) /\ UNCHANGED io
    \/ \E t \in Threads : resetRediscover(t) /\ UNCHANGED io
    \/ \E t \in Threads, in \in FewDialAnswers : fpDial(t, in) /\ UNCHANGED io
    \/ \E t \in Threads : fpMerge(t) /\ UNCHANGED io
    \/ \E t \in Threads : fpAppendRead(t) /\ UNCHANGED io
    \/ \E t \in Threads : fpAppendStore(t) /\ UNCHANGED io
    \/ \E t \in Threads : fpRange(t) /\ UNCHANGED io
    \/ \E t \in Threads, d \in FewLatencies : fpProbe(t, d) /\ UNCHANGED io
    \/ \E t \in Threads : resetBadReply(t) /\ UNCHANGED io
    \/ \E t \in Threads, host \in MasterHosts, port \in MasterPorts, rr \in CandidateReplies :
           resetCandidate(t, host, port, rr) /\ UNCHANGED io
    \/ \E t \in Threads : resetNewPool(t) /\ UNCHANGED io
    \/ \E t \in Threads : resetFillCall(t) /\ UNCHANGED io
    \/ \E t \in Threads : resetFill(t) /\ UNCHANGED io
    \/ \E t \in Threads : resetHealthy(t) /\ UNCHANGED io
    \/ \E t \in Threads : resetResubscribe(t) /\ UNCHANGED io
    \/ \E t \in Threads, res \in DialResults : creatorDial(t, res) /\ UNCHANGED io
    \/ \E t \in Threads, ok \in BOOLEAN : creatorRedial(t, ok) /\ UNCHANGED io
    \/ \E t \in Threads : Get(t) /\ UNCHANGED io

Spec == Init /\ [][Next]_vars

(***************************************************************************)
(* Properties of construction and resolution.                               *)
(***************************************************************************)

\* C1: a non-empty cached master address was written by a loop iteration
\* whose ROLE query against exactly that address had just answered with a
\* role that equals "MASTER" when upper-cased; an unreachable candidate or
\* one whose query erred reports no role at all.
MasterWasVerified ==
    master # "" =>
        /\ installed.addr = master
        /\ ToUpper(installed.role) = MASTER

\* a master is installed on the strength of a role the candidate spelled
\* in mixed case
MasterWasVerifiedWitness ==
    /\ master = "[::1]:6379"
    /\ installed.addr = master
    /\ installed.role = <<"M","a","s","t","e","r">>
    /\ State = Healthy

CyclePositions ==
    {"rs_enter", "rs_drain", "rs_clear", "rs_loop", "fp_dial", "fp_merge", "fp_append", "fp_store", "fp_range",
     "fp_probe", "rs_newpool", "rs_callfill", "rs_fill",
     "rs_healthy", "rs_resub", "rp_call"}
\* the goroutine is past the guard of a reset that has not returned
InCycle(t) == \E i \in 1..Len(stack[t]) : stack[t][i] \in CyclePositions

\* C2: of two callers that invoke reset, at most one passes the Resetting
\* guard, so at no time are two goroutines inside a resolution cycle.
OneCycleAtATime == Cardinality({ t \in Threads : InCycle(t) }) <= 1

\* C7: the preferred sentinel address is one of the known sentinel
\* addresses.
PreferredIsKnown == p \in Range(hps)

\* the lifecycle: Creating, Bootstrapping, then Resetting and Healthy in turn
LifecycleOrder(tr) ==
    \A i \in 1..Len(tr) :
        tr[i] = IF i = 1 THEN Creating
                ELSE IF i = 2 THEN Bootstrapping
                ELSE IF i % 2 = 1 THEN Resetting
                ELSE Healthy

\* C9, as stated: when New has returned, State has taken exactly the values
\* Creating, Bootstrapping, Resetting, Healthy.
ConstructionVisitsFourStates ==
    ctor = "returned" => ctorTrace = <<Creating, Bootstrapping, Resetting, Healthy>>

\* C9, amended: the values State takes are Creating, Bootstrapping, and then
\* Resetting and Healthy in turn (so Creating and Bootstrapping are entered
\* once, and after the first Healthy only Healthy -> Resetting and
\* Resetting -> Healthy occur); when New returns, State has gone through one
\* Resetting/Healthy round, or through two when the dial for the monitor's
\* connection was refused.
LifecycleHolds ==
    /\ trace[Len(trace)] = State
    /\ LifecycleOrder(trace)
    /\ ctor = "returned" =>
           /\ Len(ctorTrace) \in {4, 6}
           /\ ctorTrace = SubSeq(trace, 1, Len(ctorTrace))

\* New has returned after a single round, and a later refused dial has sent
\* the client through a second one
LifecycleHoldsWitness ==
    /\ ctor = "returned"
    /\ ctorTrace = <<Creating, Bootstrapping, Resetting, Healthy>>
    /\ trace = <<Creating, Bootstrapping, Resetting, Healthy, Resetting, Healthy>>

\* the bootstrap host was unreachable, its ROLE query erred, its role was
\* not SENTINEL, or the first discovery failed
BootstrapInputBad ==
    /\ io.op = "bootstrap"
    /\ ~(io.dialed /\ io.answered /\ io.sentinel /\ io.discovered)

\* C10: after such a bootstrap New has panicked with "failed to bootstrap",
\* no goroutine runs client code, State is still Bootstrapping and never
\* was Resetting or Healthy, and neither a pool nor a master exists.
BootstrapFailsFast ==
    BootstrapInputBad =>
        /\ ctor = "failed to bootstrap"
        /\ \A t \in Threads : stack[t] = <<>>
        /\ State = Bootstrapping
        /\ trace = <<Creating, Bootstrapping>>
        /\ pool = NoPool
        /\ master = ""
        /\ ~subscribed

\* a bootstrap host that answers ROLE with a role other than sentinel
BootstrapFailsFastWitness ==
    /\ io.op = "bootstrap"
    /\ io.answered
    /\ ~io.sentinel
    /\ ctor = "failed to bootstrap"

(***************************************************************************)
(* One run of findPreferred from every cache the client can hold, with     *)
(* every answer of the network; io records the answer.                      *)
(***************************************************************************)
NoDup(s) == \A i, j \in 1..Len(s) : s[i] = s[j] => i = j

\* hps starts with the bootstrap address and holds no address twice
KnownLists ==
    { s \in SeqsUpTo(SentinelAddrs, Cardinality(SentinelAddrs)) :
        Len(s) >= 1 /\ s[1] = BootAddr /\ NoDup(s) }

\* New is in its first resolution cycle, at the top of the loop
InitDiscovery ==
    /\ State = Resetting
    /\ master = ""
    /\ hps \in KnownLists
    /\ p \in Range(hps)
    /\ Up = TRUE
    /\ pool = NoPool
    /\ n = EmptyRegistry
    /\ stack = [t \in Threads |-> IF t = "main" THEN <<"rs_loop", "new_pubsub">> ELSE <<>>]
    /\ ctor = "running"
    /\ subscribed = FALSE
    /\ refusals = 0
    /\ installed = NoInstall
    /\ trace = <<Creating, Bootstrapping, Resetting>>
    /\ ctorTrace = <<>>
    /\ want = EmptyRegistry
    /\ io = NoIO
    /\ resyncDelay = 0
    /\ fp = [t \in Threads |-> NoFp]
    /\ rp = [t \in Threads |-> NoRp]
    /\ nd = [t \in Threads |-> NoNd]
    /\ fills = [t \in Threads |-> <<>>]
    /\ others = NoOthers
    /\ waited = NoWait

\* io while a run is under way: din is what the network has answered so
\* far, before the preferred sentinel when the run began, done whether the
\* run has returned
Running(din, before, done) ==
    [op |-> "findPreferred", din |-> din, before |-> before, done |-> done]

NextDiscovery ==
    \/ /\ io = NoIO
       /\ resetRediscover("main")
       /\ io' = Running(Unreachable, p, FALSE)
    \/ \E in \in DialAnswers :
          /\ fpDial("main", in)
          /\ io' = Running(in, p, FALSE)
    \/ fpMerge("main") /\ UNCHANGED io
    \/ fpAppendRead("main") /\ UNCHANGED io
    \/ fpAppendStore("main") /\ UNCHANGED io
    \/ fpRange("main") /\ UNCHANGED io
    \/ \E d \in Latencies :
          /\ fpProbe("main", d)
          /\ io' = [io EXCEPT !.din.lat[Head(fp["main"].snap)] = d,
                               !.done = Tail(fp["main"].snap) = <<>>]

SpecDiscovery == InitDiscovery /\ [][NextDiscovery]_vars

\* C6: no step of a discovery run leaves an address twice in the known
\* list, removes or moves an address known before (also one whose probe
\* failed), or adds an address elsewhere than at the end.  (It holds under
\* SpecDiscovery, the runs of one goroutine, and fails under Spec, where
\* the runs of two goroutines overlap.)
KnownListOnlyGrows ==
    [][ /\ NoDup(hps')
        /\ Len(hps') >= Len(hps)
        /\ \A i \in 1..Len(hps) : hps'[i] = hps[i] ]_vars

\* the positions of the known list whose probe succeeded below the ceiling
Responsive(known, lat) ==
    { i \in 1..Len(known) : lat[known[i]] # -1 /\ lat[known[i]] < Ceiling }

\* C8: after a completed discovery run the preferred sentinel is the known
\* address with the smallest successful connect latency, the first of the
\* list among equals; when no probe succeeds below the ceiling, or the run
\* fails, the preferred sentinel is the one from before the run.
PreferredIsFastest ==
    io.op = "findPreferred" =>
        LET lat == io.din.lat
            ok == Responsive(hps, lat)
        IN /\ stack["main"] = <<>> => p = io.before
           /\ io.done =>
                IF ok = {}
                THEN p = io.before
                ELSE \E i \in ok :
                       /\ p = hps[i]
                       /\ \A j \in ok :
                            \/ lat[hps[j]] > lat[hps[i]]
                            \/ lat[hps[j]] = lat[hps[i]] /\ j >= i

\* the second and third known address tie below the first: the second wins
PreferredIsFastestWitness ==
    /\ io.op = "findPreferred"
    /\ io.done
    /\ Len(hps) = 3
    /\ io.din.lat[hps[1]] = 2
    /\ io.din.lat[hps[2]] = 1
    /\ io.din.lat[hps[3]] = 1
    /\ p = hps[2]
    /\ io.before = hps[1]

(***************************************************************************)
(* The client New returns when nothing went wrong: one resolution cycle,    *)
(* no peer sentinel, the pool filled.                                       *)
(***************************************************************************)
Constructed ==
    /\ State = Healthy
    /\ master = "10.0.0.5:6379"
    /\ hps = <<BootAddr>>
    /\ p = BootAddr
    /\ Up = TRUE
    /\ pool = [id |-> 1, conns |-> PoolSize, bad |-> 0]
    /\ n = EmptyRegistry
    /\ stack = [t \in Threads |-> <<>>]
    /\ ctor = "returned"
    /\ subscribed = TRUE
    /\ refusals = 0
    /\ installed = [addr |-> "10.0.0.5:6379", role |-> <<"m","a","s","t","e","r">>]
    /\ trace = <<Creating, Bootstrapping, Resetting, Healthy>>
    /\ ctorTrace = <<Creating, Bootstrapping, Resetting, Healthy>>
    /\ want = EmptyRegistry
    /\ io = [op |-> "bootstrap", dialed |-> TRUE, answered |-> TRUE,
             sentinel |-> TRUE, discovered |-> TRUE]
    /\ resyncDelay = 0
    /\ fp = [t \in Threads |-> NoFp]
    /\ rp = [t \in Threads |-> NoRp]
    /\ nd = [t \in Threads |-> NoNd]
    /\ fills = [t \in Threads |-> <<>>]
    /\ others = NoOthers
    /\ waited = 0

(***************************************************************************)
(* The sentinel monitor, pubSub (lines 616-650).                            *)
(***************************************************************************)
MsgChars == {"m", " "}
Messages == SeqsUpTo(MsgChars, MaxMsgLen)

\* strings.SplitN(s, " ", k) for k >= 1
RECURSIVE SplitN(_, _)
SplitN(s, k) ==
    IF k = 1 \/ ~\E i \in 1..Len(s) : s[i] = " "
    THEN <<s>>
    ELSE LET i == CHOOSE x \in 1..Len(s) :
                    s[x] = " " /\ \A y \in 1..(x - 1) : s[y] # " "
         IN <<SubSeq(s, 1, i - 1)>> \o SplitN(SubSeq(s, i + 1, Len(s)), k - 1)

\* isMasterName with msga[0] compared in place of msga[1]
isMasterNameFirstField(msg) ==
    LET msga == SplitN(msg, 3)
    IN IF Len(msga) < 3 THEN FALSE ELSE msga[1] = MasterName

\* lines 618-625
isMasterName(msg) ==
    LET msga == SplitN(msg, 3)
    IN IF Len(msga) < 3 THEN FALSE ELSE msga[2] = MasterName

\* lines 626-633: the handler of "+odown"
onObjectDown(msg, err) ==
    /\ subscribed
    /\ Up' = IF err THEN Up ELSE IF isMasterName(msg) THEN FALSE ELSE Up
    /\ UNCHANGED <<State, master, hps, p, pool, n, stack, ctor, subscribed,
                   refusals, installed, trace, ctorTrace, want,
                   resyncDelay, nd, waited,
                   fp, rp, fills, others>>

\* lines 634-641: the handler of "-odown"
onObjectUp(msg, err) ==
    /\ subscribed
    /\ Up' = IF err THEN Up ELSE IF isMasterName(msg) THEN TRUE ELSE Up
    /\ UNCHANGED <<State, master, hps, p, pool, n, stack, ctor, subscribed,
                   refusals, installed, trace, ctorTrace, want,
                   resyncDelay, nd, waited,
                   fp, rp, fills, others>>

\* lines 642-649: the handler of "switch-master"
onSwitchMaster(msg, err) ==
    /\ subscribed
    /\ Up' = IF err THEN Up ELSE IF isMasterName(msg) THEN TRUE ELSE Up
    /\ UNCHANGED <<State, master, hps, p, pool, n, stack, ctor, subscribed,
                   refusals, installed, trace, ctorTrace, want,
                   resyncDelay, nd, waited,
                   fp, rp, fills, others>>

(***************************************************************************)
(* Acquire and release on the client New returned (lines 664-674).          *)
(***************************************************************************)
\* Get (lines 664-666) on a pool that holds a connection: the pool hands
\* it to the caller
GetPooled ==
    /\ ctor = "returned"
    /\ pool.conns > 0
    /\ pool' = [pool EXCEPT !.conns = @ - 1]
    /\ UNCHANGED <<State, master, hps, p, Up, n, stack, ctor, subscribed,
                   refusals, installed, trace, ctorTrace, want,
                   resyncDelay, nd, waited,
                   fp, rp, fills, others>>

\* Put that returns the connection whatever the flag says
PutIgnoresFlag ==
    /\ ctor = "returned"
    /\ pool.id # 0
    /\ pool.conns + pool.bad < PoolSize
    /\ pool' = [pool EXCEPT !.conns = @ + 1]
    /\ UNCHANGED <<State, master, hps, p, Up, n, stack, ctor, subscribed,
                   refusals, installed, trace, ctorTrace, want,
                   resyncDelay, nd, waited,
                   fp, rp, fills, others>>

\* Put (lines 668-674) of a connection the caller took from the pool:
\* s.pool.Put(c) when s.Up, s.pool.Bad(c) otherwise
Put ==
    /\ ctor = "returned"
    /\ pool.id # 0
    /\ pool.conns + pool.bad < PoolSize
    /\ pool' = IF Up THEN [pool EXCEPT !.conns = @ + 1]
                     ELSE [pool EXCEPT !.bad = @ + 1]
    /\ UNCHANGED <<State, master, hps, p, Up, n, stack, ctor, subscribed,
                   refusals, installed, trace, ctorTrace, want,
                   resyncDelay, nd, waited,
                   fp, rp, fills, others>>

\* Bad (lines 676-678) of a connection the caller took from the pool:
\* s.pool.Bad(c), whatever s.Up says
Bad ==
    /\ ctor = "returned"
    /\ pool.id # 0
    /\ pool.conns + pool.bad < PoolSize
    /\ pool' = [pool EXCEPT !.bad = @ + 1]
    /\ UNCHANGED <<State, master, hps, p, Up, n, stack, ctor, subscribed,
                   refusals, installed, trace, ctorTrace, want,
                   resyncDelay, nd, waited,
                   fp, rp, fills, others>>

Delivery(channel, msg, err) ==
    [op |-> "message", channel |-> channel, msg |-> msg, err |-> err]

InitMonitor == Constructed

NextMonitor ==
    \/ \E msg \in Messages, err \in BOOLEAN :
           onObjectDown(msg, err) /\ io' = Delivery("+odown", msg, err)
    \/ \E msg \in Messages, err \in BOOLEAN :
           onObjectUp(msg, err) /\ io' = Delivery("-odown", msg, err)
    \/ \E msg \in Messages, err \in BOOLEAN :
           onSwitchMaster(msg, err) /\ io' = Delivery("switch-master", msg, err)
    \/ GetPooled /\ io' = [op |-> "Get"]
    \/ Put /\ io' = [op |-> "Put"]
    \/ Bad /\ io' = [op |-> "Bad"]

SpecMonitor == InitMonitor /\ [][NextMonitor]_vars

\* the message has a first and a second space, and what lies between them
\* is name
SecondFieldIs(msg, name) ==
    \E i, j \in 1..Len(msg) :
        /\ i < j
        /\ msg[i] = " "
        /\ msg[j] = " "
        /\ \A k \in 1..(j - 1) : k # i => msg[k] # " "
        /\ SubSeq(msg, i + 1, j - 1) = name

\* C5: the flag is true at first; a delivery without error whose second
\* field is the master name sets it to false on +odown and to true on
\* -odown and switch-master; every other delivery leaves it as it was.
AvailabilityFollowsMessages ==
    /\ Up = TRUE
    /\ [][ io'.op = "message" =>
             LET relevant == ~io'.err /\ SecondFieldIs(io'.msg, MasterName)
             IN Up' = IF relevant /\ io'.channel = "+odown" THEN FALSE
                      ELSE IF relevant /\ io'.channel \in {"-odown", "switch-master"}
                           THEN TRUE
                      ELSE Up ]_vars

\* "m m m" on +odown has cleared the flag
AvailabilityFollowsMessagesWitness ==
    /\ io.op = "message"
    /\ io.channel = "+odown"
    /\ io.msg = <<"m", " ", "m", " ", "m">>
    /\ ~io.err
    /\ Up = FALSE

\* C12: Put consults the flag as it is at the call: with the flag true the
\* connection goes back to the pool and none is marked bad, with the flag
\* false it is marked bad and the pool holds no more connections than
\* before; Put changes neither the flag nor the state.
PutConsultsFlag ==
    [][ io'.op = "Put" =>
          /\ Up' = Up
          /\ State' = State
          /\ pool'.id = pool.id
          /\ IF Up
             THEN pool'.conns = pool.conns + 1 /\ pool'.bad = pool.bad
             ELSE pool'.conns = pool.conns /\ pool'.bad = pool.bad + 1 ]_vars

\* +odown has cleared the flag, and a connection taken from the pool was
\* released: it is marked bad and the pool is one short
PutConsultsFlagWitness ==
    /\ io.op = "Put"
    /\ Up = FALSE
    /\ pool.bad = 1
    /\ pool.conns = PoolSize - 1

\* the handlers that want counts in all
Total(count) ==
    LET RECURSIVE Sum(_)
        Sum(S) == IF S = {} THEN 0
                  ELSE LET c == CHOOSE x \in S : TRUE IN count[c] + Sum(S \ {c})
    IN Sum(DOMAIN count)

(***************************************************************************)
(* Registrations and resolution cycles: the goroutine main acquires         *)
(* connections, runs the cycles and calls NDo and NUnDo; the preferred      *)
(* sentinel answers and names 10.0.0.5:6379.  Of the register calls a       *)
(* replay makes for an entry, the first may fail.                           *)
(* io records the registry call of the last step, if it was one: for the    *)
(* step at which NDo or NUnDo returns, the call and s.n as it was when the  *)
(* call began.                                                              *)
(***************************************************************************)
InitRegistry == Constructed

\* the goroutine is in resubscribe: in its range, or in an s.NDo it called
InReplay(t) ==
    \E i \in 1..Len(stack[t]) : stack[t][i] \in {"rs_resub", "rp_call"}

\* what io records of the step of NDo the goroutine is about to take; last
\* tells that the step is the one NDo returns with
NDoStep(t, last) ==
    IF InReplay(t) THEN [op |-> "replay", ck |-> rp[t].ck, err |-> FALSE]
    ELSE IF last
    THEN [op |-> "NDo", command |-> nd[t].command, handler |-> nd[t].handler,
          keys |-> nd[t].keys, err |-> FALSE, n0 |-> nd[t].n0]
    ELSE [op |-> "NDoStep"]

\* what io records of the delete the goroutine is about to make: the entry,
\* and with the last delete the call that returns
NUnDoStep(t) ==
    [op |-> IF Len(nd[t].left) = 1 THEN "NUnDo" ELSE "delete",
     ck |-> AtKey(t), command |-> nd[t].command, keys |-> nd[t].keys]

\* no goroutine but t is in a call on the client
Alone(t) == \A u \in Threads \ {t} : stack[u] = <<>>

NextRegistry ==
    \/ \E c \in Commands, h \in Handlers, keys \in KeyLists, err \in BOOLEAN :
           /\ Alone("main")
           /\ Total(want) + Len(keys) <= MaxRegs
           /\ NDo("main", c, h, keys, err)
           /\ io' = [op |-> IF err \/ keys = <<>> THEN "NDo" ELSE "NDoStep",
                     command |-> c, handler |-> h, keys |-> keys, err |-> err,
                     n0 |-> n]
    \/ NDoExists("main") /\ io' = NDoStep("main", FALSE)
    \/ NDoCreate("main") /\ io' = NDoStep("main", FALSE)
    \/ NDoRead("main") /\ io' = NDoStep("main", FALSE)
    \/ NDoStore("main") /\ io' = NDoStep("main", Len(nd["main"].left) = 1)
    \/ \E c \in Commands, keys \in KeyLists, err \in BOOLEAN :
           /\ Alone("main")
           /\ NUnDo("main", c, keys, err)
           /\ io' = [op |-> "NUnDoCall", command |-> c, keys |-> keys, err |-> err]
    \/ NUnDoDelete("main") /\ io' = NUnDoStep("main")
    \/ Get("main") /\ io' = NoIO
    \/ \E res \in DialResults : creatorDial("main", res) /\ io' = NoIO
    \/ \E ok \in BOOLEAN : creatorRedial("main", ok) /\ io' = NoIO
    \/ resetGuard("main") /\ io' = NoIO
    \/ resetEnter("main") /\ io' = NoIO
    \/ resetDrain("main") /\ io' = NoIO
    \/ resetClear("main") /\ io' = NoIO
    \/ \E rr \in RoleReplies :
           resetCandidate("main", "10.0.0.5", "6379", rr) /\ io' = NoIO
    \/ resetNewPool("main") /\ io' = NoIO
    \/ resetFillCall("main") /\ io' = NoIO
    \/ resetFill("main") /\ io' = NoIO
    \/ resetHealthy("main") /\ io' = NoIO
    \/ /\ replayNext("main")
       /\ io' = [op |-> "entry", ck |-> rp'["main"].ck,
                 held |-> rp'["main"].ck \in Ranging("main").todo]
    \/ \E err \in BOOLEAN :
           /\ err => rp["main"].i = 1
           /\ replayCall("main", err)
           /\ io' = [op |-> "replay", ck |-> rp["main"].ck, err |-> err]
    \/ /\ resetResubscribe("main")
       /\ io' = [op |-> "resubscribed",
                 issued |-> Ranging("main").issued,
                 want0 |-> Ranging("main").want0]

SpecRegistry == InitRegistry /\ [][NextRegistry]_vars

(***************************************************************************)
(* The same, with a second goroutine, c1, that calls NUnDo for entries      *)
(* callers hold registered while main is in resubscribe.  The steps of the  *)
(* two goroutines interleave, and the runtime may find the two at s.n       *)
(* together.  main registers and unregisters before its first resolution    *)
(* cycle; the calls of c1 begin and end during the replay of the first.     *)
(***************************************************************************)
\* the client is in, or past, its first resolution cycle since New returned
\* and has begun no second one
FirstCycle == Len(trace) <= Len(ctorTrace) + 2
\* main begins a call of NDo or NUnDo that enters its loop
MainRegisters ==
    /\ stack["main"] = <<>>
    /\ stack'["main"] \in {<<"nd_exists">>, <<"nu_delete">>}

\* main returns from resubscribe
MainLeaves == At("main", "rs_resub") /\ stack'["main"] = Tail(stack["main"])

NextReplayRace ==
    \/ /\ NextRegistry
       /\ MainRegisters => trace = ctorTrace
       /\ MainLeaves => stack["c1"] = <<>>
    \/ \E c \in Commands, keys \in KeyLists, err \in BOOLEAN :
           /\ InReplay("main")
           /\ FirstCycle
           /\ TouchedBy(c, keys) \subseteq DOMAIN want
           /\ NUnDo("c1", c, keys, err)
           /\ io' = [op |-> "NUnDoCall", command |-> c, keys |-> keys, err |-> err]
    \/ NUnDoDelete("c1") /\ io' = NUnDoStep("c1")
    \/ mapFault /\ io' = [op |-> "fatal"]

SpecReplayRace == InitRegistry /\ [][NextReplayRace]_vars

\* the register calls the replay that just ended made for the entry ck
Issued(ck) == IF ck \in DOMAIN io'.issued THEN io'.issued[ck] ELSE 0

\* C3: the replay of every resolution cycle issues, for each entry, one
\* register call per handler the callers hold registered for it: one call
\* for a handler registered once and never unregistered.  (Stated for a
\* replay at whose end the callers hold registered what they held when it
\* began.)
ReplayIssuesEachOnce ==
    [][ (io'.op = "resubscribed" /\ io'.want0 = want) =>
          \A ck \in DOMAIN want : Issued(ck) = want[ck] ]_vars

\* C4: every step of NUnDo removes the entry of one given key and leaves
\* every other entry as it is, whether or not the pool's NUnDo failed; when
\* NUnDo returns, the registry holds no entry of a given key; and the range
\* of a replay finds in the map, when it begins, only entries that callers
\* registered and have not unregistered since.  (It holds under
\* SpecRegistry and fails under SpecReplayRace.)
UnregisterIsFinal ==
    [][ /\ io'.op \in {"delete", "NUnDo"} =>
              /\ DOMAIN n' = DOMAIN n \ {io'.ck}
              /\ \A ck \in DOMAIN n' : n'[ck] = n[ck]
        /\ io'.op = "NUnDo" =>
              TouchedBy(io'.command, io'.keys) \cap DOMAIN n' = {}
        /\ (io'.op = "entry" /\ io'.held) => io'.ck \in DOMAIN want ]_vars

(***************************************************************************)
(* The factory's forced resolution (lines 444-450), under Spec.             *)
(***************************************************************************)
\* the goroutine is in the factory, about to dial a second time
AtRetry(stk) == stk # <<>> /\ Head(stk) = "cr_redial"

\* C11: when the factory's dial is refused, the reset it calls runs a whole
\* resolution cycle before the factory dials again: the step that brings a
\* goroutine back into the factory for its second dial is the last step of
\* a cycle of that goroutine, and the address it is about to dial is not
\* empty and was verified.
FactoryResolvesBeforeRetry ==
    [][ \A t \in Threads :
          (~AtRetry(stack[t]) /\ AtRetry(stack'[t])) =>
              /\ At(t, "rs_resub")
              /\ master' # ""
              /\ installed'.addr = master' ]_vars

(***************************************************************************)
(* A discovery run that fails inside the resolution loop, under             *)
(* SpecDiscovery.                                                           *)
(***************************************************************************)
\* C13: a discovery run the resolution loop invokes is never fatal: whatever
\* the network answered to it, the goroutine is still in the loop, State is
\* Resetting with that loop running, and nothing was raised to the caller
\* of New.
DiscoveryFailureIsTransient ==
    io.op = "findPreferred" =>
        /\ InCycle("main")
        /\ State = Resetting
        /\ ctor = "running"

(***************************************************************************)
(* The resolution loop in a network that has settled: io holds the set of   *)
(* sentinels that can be dialled, at least one of them known; a sentinel    *)
(* that can be dialled answers the peer-list query, and the master it names *)
(* is, time and again, reachable with the role master.  New is in its first *)
(* cycle, at the top of the loop.                                           *)
(***************************************************************************)
Net(R) == [op |-> "net", reachable |-> R]

InitLive ==
    /\ State = Resetting
    /\ master = ""
    /\ hps \in KnownLists
    /\ p \in Range(hps)
    /\ Up = TRUE
    /\ pool = NoPool
    /\ n = EmptyRegistry
    /\ stack = [t \in Threads |-> IF t = "main" THEN <<"rs_loop", "new_pubsub">> ELSE <<>>]
    /\ ctor = "running"
    /\ subscribed = FALSE
    /\ refusals = 0
    /\ installed = NoInstall
    /\ trace = <<Creating, Bootstrapping, Resetting>>
    /\ ctorTrace = <<>>
    /\ want = EmptyRegistry
    /\ io \in { Net(R) : R \in { Q \in SUBSET SentinelAddrs : Q \cap Range(hps) # {} } }
    /\ resyncDelay = 0
    /\ fp = [t \in Threads |-> NoFp]
    /\ rp = [t \in Threads |-> NoRp]
    /\ nd = [t \in Threads |-> NoNd]
    /\ fills = [t \in Threads |-> <<>>]
    /\ others = NoOthers
    /\ waited = NoWait

\* what findPreferred meets when it can: a well-formed peer list
Answers ==
    { din \in FewDialAnswers :
        /\ din.dial
        /\ ~din.err
        /\ \A i \in 1..Len(din.reply) : din.reply[i].ok }
\* a probe succeeds exactly for the sentinels that can be dialled
Probed(snap, R, d) == (d # -1) <=> (Head(snap) \in R)

\* an iteration that installs the master: the preferred sentinel is
\* reachable and the address it names answers ROLE with master
InstallVerified ==
    /\ p \in io.reachable
    /\ \E host \in MasterHosts, port \in MasterPorts :
           resetCandidate("main", host, port,
                          [dial |-> TRUE, err |-> FALSE, role |-> <<"m","a","s","t","e","r">>])
    /\ UNCHANGED io

NextLive ==
    \/ resetRediscover("main") /\ UNCHANGED io
    \/ p \notin io.reachable /\ fpDial("main", Unreachable) /\ UNCHANGED io
    \/ /\ p \in io.reachable
       /\ \E in \in Answers : fpDial("main", in)
       /\ UNCHANGED io
    \/ fpMerge("main") /\ UNCHANGED io
    \/ fpAppendRead("main") /\ UNCHANGED io
    \/ fpAppendStore("main") /\ UNCHANGED io
    \/ fpRange("main") /\ UNCHANGED io
    \/ \E d \in FewLatencies :
          /\ fpProbe("main", d)
          /\ Probed(fp["main"].snap, io.reachable, d)
          /\ UNCHANGED io
    \/ /\ p \in io.reachable
       /\ \E host \in MasterHosts, port \in MasterPorts, rr \in RoleReplies :
              resetCandidate("main", host, port, rr)
       /\ UNCHANGED io
    \/ resetNewPool("main") /\ UNCHANGED io
    \/ resetFillCall("main") /\ UNCHANGED io
    \/ resetFill("main") /\ UNCHANGED io
    \/ creatorDial("main", "ok") /\ UNCHANGED io
    \/ resetHealthy("main") /\ UNCHANGED io
    \/ resetResubscribe("main") /\ UNCHANGED io

\* the goroutine keeps running, and the iteration that installs the master
\* is not put off for ever
SpecLive ==
    /\ InitLive
    /\ [][NextLive]_vars
    /\ WF_vars(NextLive)
    /\ SF_vars(InstallVerified)

\* C14: a cycle that has entered Resetting ends, in such a network, with a
\* master installed and the state Healthy.
CycleEndsHealthy == (State = Resetting) ~> (State = Healthy /\ master # "")

(***************************************************************************)
(* The guard of reset (lines 555-557), under Spec.                          *)
(***************************************************************************)
\* C15: a reset called while State is Resetting returns at once: the
\* goroutine is back in its caller, and the state, the master address, the
\* pool, the known sentinels, the preferred sentinel and the registry are
\* as before; nothing was drained and no loop iteration began.
ReentrantResetIsNoOp ==
    [][ \A t \in Threads :
          (At(t, "rs_guard") /\ State = Resetting /\ stack'[t] # stack[t]) =>
              /\ stack'[t] = Tail(stack[t])
              /\ State' = State
              /\ master' = master
              /\ pool' = pool
              /\ hps' = hps
              /\ p' = p
              /\ n' = n
              /\ waited' = waited ]_vars

\* the fill of New's first cycle called the factory, its dial was refused,
\* and the reset it called has returned without a second Resetting
ReentrantResetIsNoOpWitness ==
    /\ stack["main"] = <<"cr_redial", "rs_fill", "new_pubsub">>
    /\ stack["c1"] = <<>>
    /\ refusals = 1
    /\ State = Resetting
    /\ trace = <<Creating, Bootstrapping, Resetting>>
    /\ master # ""

(***************************************************************************)
(* The delay at the top of the resolution loop (line 567), under Spec.      *)
(***************************************************************************)
\* C16: every iteration of the resolution loop began by sleeping for the
\* resyncDelay that was passed to New.
LoopWaitsResyncDelay == waited # NoWait => waited = ResyncDelay

(***************************************************************************)
(* Construction and resolution cycles of a single goroutine: New, and then  *)
(* the caller's Get whose factory dial may be refused.                      *)
(***************************************************************************)
NextOneCaller ==
    \/ \E rr \in RoleReplies, din \in FewDiscoveryInputs :
           bootstrap("main", rr, din) /\ io' = BootstrapInput(rr, din)
    \/ pubSub("main") /\ UNCHANGED io
    \/ newReturn("main") /\ UNCHANGED io
    \/ resetGuard("main") /\ UNCHANGED io
    \/ resetEnter("main") /\ UNCHANGED io
    \/ resetDrain("main") /\ UNCHANGED io
    \/ resetClear("main") /\ UNCHANGED io
    \/ resetRediscover("main") /\ UNCHANGED io
    \/ \E in \in FewDialAnswers : fpDial("main", in) /\ UNCHANGED io
    \/ fpMerge("main") /\ UNCHANGED io
    \/ fpAppendRead("main") /\ UNCHANGED io
    \/ fpAppendStore("main") /\ UNCHANGED io
    \/ fpRange("main") /\ UNCHANGED io
    \/ \E d \in FewLatencies : fpProbe("main", d) /\ UNCHANGED io
    \/ resetBadReply("main") /\ UNCHANGED io
    \/ \E host \in MasterHosts, port \in MasterPorts, rr \in RoleReplies :
           resetCandidate("main", host, port, rr) /\ UNCHANGED io
    \/ resetNewPool("main") /\ UNCHANGED io
    \/ resetFillCall("main") /\ UNCHANGED io
    \/ resetFill("main") /\ UNCHANGED io
    \/ resetHealthy("main") /\ UNCHANGED io
    \/ resetResubscribe("main") /\ UNCHANGED io
    \/ \E res \in DialResults : creatorDial("main", res) /\ UNCHANGED io
    \/ \E ok \in BOOLEAN : creatorRedial("main", ok) /\ UNCHANGED io
    \/ Get("main") /\ UNCHANGED io

SpecOneCaller == Init /\ [][NextOneCaller]_vars

\* the goroutine has the position l somewhere on its stack
Within(t, l) == \E i \in 1..Len(stack[t]) : stack[t][i] = l

\* where a cycle stands, told from its position alone
CycleOrderState ==
    /\ At("main", "rs_clear") => pool.conns = 0
    /\ Within("main", "rs_loop") => master = "" /\ pool.conns = 0
    /\ (Within("main", "rs_newpool") \/ Within("main", "rs_callfill")
          \/ Within("main", "rs_fill") \/ Within("main", "rs_healthy")) =>
           /\ master # ""
           /\ installed.addr = master
           /\ ToUpper(installed.role) = MASTER
    /\ (State = Resetting /\ pool.conns > 0) => master # ""
    /\ At("main", "rs_healthy") => pool.conns = PoolSize /\ State = Resetting
    /\ At("main", "rs_resub") => State = Healthy /\ pool.conns = PoolSize

\* what a step of a cycle may find and leave
CycleOrderStep ==
    /\ (master # "" /\ master' = "") => pool.id # 0 /\ pool.conns = 0
    /\ pool'.id # pool.id =>
           /\ At("main", "rs_newpool")
           /\ pool'.id = pool.id + 1
           /\ pool'.conns = 0
    /\ (State # Healthy /\ State' = Healthy) =>
           /\ pool.id # 0
           /\ pool.conns = PoolSize
           /\ master # ""
    /\ n' # n => State = Healthy

\* C17: in every resolution cycle an existing pool is drained before the
\* master is cleared and before a sentinel is asked; the master is empty
\* all through the loop, until a verified candidate is installed; a new
\* pool is created, and filled to size, only with the verified master in
\* place; State becomes Healthy only with the pool filled; the replay runs
\* only with State Healthy; and every pool the cycle creates is a new one.
CycleOrder == []CycleOrderState /\ [][CycleOrderStep]_vars

\* a second cycle has drained the first pool and filled a second one, and
\* is about to replay
CycleOrderWitness ==
    /\ At("main", "rs_resub")
    /\ pool.id = 2
    /\ pool.conns = PoolSize
    /\ State = Healthy
    /\ Len(trace) = 6

(***************************************************************************)
(* Registration (lines 684-697), under SpecRegistry.                        *)
(***************************************************************************)
\* C18: an NDo whose pool call succeeded leaves, for every given key, the
\* handlers registered before in their order, followed by the new handler
\* (once for every time the key was given), and leaves the entries of all
\* other keys as they were; an NDo whose pool call failed leaves the
\* registry as it was.
RegisterAppends ==
    [][ io'.op = "NDo" =>
          IF io'.err
          THEN n' = io'.n0
          ELSE /\ DOMAIN n' = DOMAIN io'.n0 \cup TouchedBy(io'.command, io'.keys)
               /\ \A ck \in DOMAIN n' :
                     n'[ck] = Held(io'.n0, ck)
                              \o [i \in 1..Occurrences(io'.command, io'.keys, ck) |->
                                    io'.handler] ]_vars

\* h2 was registered for a key that held h1, and stands behind it
RegisterAppendsWitness ==
    /\ io.op = "NDo"
    /\ ~io.err
    /\ io.handler = "h2"
    /\ io.keys = <<"k1">>
    /\ "SUBSCRIBE:k1" \in DOMAIN n
    /\ n["SUBSCRIBE:k1"] = <<"h1", "h2">>

\* C20: a replay leaves the registry as it was: the same entries, and for
\* each entry the same handlers in the same number, whether the register
\* calls it issued failed or not.
ReplayKeepsRegistry == [][ io'.op = "replay" => n' = n ]_vars

(***************************************************************************)
(* What Healthy stands for, under Spec: two goroutines.                     *)
(***************************************************************************)
\* C19: whenever State is Healthy, the cached master address is not empty
\* and a pool exists.
HealthyHasMaster == State = Healthy => (master # "" /\ pool.id # 0)

====
